---- MODULE Spec2Model ----
(***************************************************************************)
(* Model of src/src/support/zkvm.rs: the zkvm dispatch of Clone::clone and *)
(* PartialEq::eq of Uint<BITS, LIMBS>, and of the foreign routines it      *)
(* hands raw limb pointers to.                                             *)
(*                                                                         *)
(* Memory is an array of limb cells.  Every object (the operands, the     *)
(* ZERO temporary, the MaybeUninit output buffer of clone, the caller's   *)
(* slot for the returned value) is a [u64; LIMBS] array at its own base    *)
(* address.  A pointer is the address of a limb cell (8 bytes each).       *)
(* Limbs are scaled from 0..2^64-1 down to 0..MaxLimb.                     *)
(***************************************************************************)
EXTENDS Integers, Sequences, FiniteSets

VARIABLES bits, mem, live, pc, op, ret, calls, events, generic, pre

vars == <<bits, mem, live, pc, op, ret, calls, events, generic, pre>>

\* ------------------------------------------------------------------ bounds
\* Largest value of a limb in the model (a u64 scaled down).
MaxLimb == 1

\* --------------------------------------------------------------- constants
\* Bits of one limb (u64).
WordBits == 64
\* Width the foreign routines are specified for ("256-bit numbers").
NativeBits == 256
\* Content of a limb cell of MaybeUninit::uninit() or of dead storage.
Undef == 0 - 1

Limb == 0 .. MaxLimb
Radix == MaxLimb + 1

\* The instantiations Uint<BITS, LIMBS> of the model.
Widths == {64, 192, 256, 320}

\* LIMBS of Uint<BITS, LIMBS>: word count = ceil(bit width / word bit size).
nlimbs(BITS) == (BITS + WordBits - 1) \div WordBits

LIMBS == nlimbs(bits)

\* Limbs the foreign routines read and write through each pointer.
NativeLimbs == NativeBits \div WordBits

\* ------------------------------------------------------------------ memory
ObjectSet == {"x", "y", "zero", "uninit", "r"}
Slot(o) == CASE o = "x" -> 0 [] o = "y" -> 1 [] o = "zero" -> 2 [] o = "uninit" -> 3 [] o = "r" -> 4

\* Address of limbs[0] of object o (limbs.as_ptr()), in limb cells.
Base(o) == Slot(o) * LIMBS
Addr == 0 .. (Cardinality(ObjectSet) * LIMBS - 1)
Cells(o) == Base(o) .. (Base(o) + LIMBS - 1)

\* The limb array of object o in memory m.
LimbsOf(m, o) == LET b == Base(o) IN [i \in 1 .. LIMBS |-> m[b + i - 1]]

\* Read of one cell through a raw pointer.
Read(m, a) == IF a \in DOMAIN m THEN m[a] ELSE Undef
ReadN(m, p, n) == [i \in 1 .. n |-> Read(m, p + i - 1)]

Range(s) == {s[i] : i \in 1 .. Len(s)}

\* The unsigned number a limb sequence stands for, least significant first.
RECURSIVE Num(_)
Num(s) == IF Len(s) = 0 THEN 0 ELSE s[1] + Radix * Num(Tail(s))

\* Self::ZERO: every limb 0.
ZERO == [i \in 1 .. LIMBS |-> 0]

\* The operands of a call: &self and &other.
self == "x"
other == "y"

\* -------------------------------------------------------- foreign routines
\* clone_impl(result, a, zero): "Clone a 256-bit number into `result`".
clone_impl(m, result, a, zero) ==
    [c \in DOMAIN m |->
        IF c \in result .. (result + NativeLimbs - 1)
        THEN Read(m, a + (c - result))
        ELSE m[c]]

\* eq_impl(a, b): "Check if two 256-bit numbers are equal".
eq_impl(m, a, b) == Num(ReadN(m, a, NativeLimbs)) = Num(ReadN(m, b, NativeLimbs))

\* cmp_impl(a, b): "Compare two 256-bit numbers".
cmp_impl(m, a, b) ==
    LET na == Num(ReadN(m, a, NativeLimbs))
        nb == Num(ReadN(m, b, NativeLimbs))
    IN IF na < nb THEN "Less" ELSE IF na = nb THEN "Equal" ELSE "Greater"

\* -------------------------------------------------------------- dispatch
\* Faulty variant: the accelerated branch of clone taken for every width from 256 up.
clone_is_accel_ge(BITS) == BITS >= 256

\* `if BITS == 256` of clone.
clone_is_accel(BITS) == BITS = 256

\* Faulty variant: the accelerated branch of eq taken for every width from 256 up.
eq_is_accel_ge(BITS) == BITS >= 256

\* `if BITS == 256` of eq.
eq_is_accel(BITS) == BITS = 256

\* Faulty variants of the argument list of clone_impl.
\* The two inputs exchanged: the zero value is cloned.
clone_args_inputs_swapped == <<Base("uninit"), Base("zero"), Base(self)>>
\* The source passed where the zero value belongs.
clone_args_zero_is_self == <<Base("uninit"), Base(self), Base(self)>>
\* The copy written in place, over the source.
clone_args_in_place == <<Base(self), Base(self), Base("zero")>>
\* Result last instead of result first.
clone_args_result_last == <<Base(self), Base("zero"), Base("uninit")>>

\* The three pointers clone hands to clone_impl: result, a, zero.
clone_args == <<Base("uninit"), Base(self), Base("zero")>>

\* Faulty variants of the argument list of eq_impl.
eq_args_self_twice == <<Base(self), Base(self)>>
eq_args_other_twice == <<Base(other), Base(other)>>

\* The two pointers eq hands to eq_impl: a, b.
eq_args == <<Base(self), Base(other)>>

\* `if BITS == 256` of the ordering comparison.
cmp_is_accel(BITS) == BITS = 256

\* The two pointers cmp hands to cmp_impl: a, b.
cmp_args == <<Base(self), Base(other)>>

\* Generic unsigned ordering of two limb arrays: the most significant limb
\* that differs decides.
RECURSIVE GenericCmp(_, _)
GenericCmp(s, t) ==
    IF Len(s) = 0 THEN "Equal"
    ELSE IF s[Len(s)] < t[Len(t)] THEN "Less"
    ELSE IF s[Len(s)] > t[Len(t)] THEN "Greater"
    ELSE GenericCmp(SubSeq(s, 1, Len(s) - 1), SubSeq(t, 1, Len(t) - 1))

\* Memory with the cells of object o set to the limb array s.
Store(m, o, s) ==
    LET b == Base(o)
        n == LIMBS
    IN [c \in DOMAIN m |-> IF c >= b /\ c < b + n THEN s[c - b + 1] ELSE m[c]]
Dead(m, o) ==
    LET b == Base(o)
        n == LIMBS
    IN [c \in DOMAIN m |-> IF c >= b /\ c < b + n THEN Undef ELSE m[c]]

Init ==
    /\ bits \in Widths
    /\ \E xv \in [1 .. LIMBS -> Limb], yv \in [1 .. LIMBS -> Limb] :
          /\ mem = Store(Store([c \in Addr |-> Undef], "x", xv), "y", yv)
          /\ pre = [x |-> xv, y |-> yv]
    /\ live = {"x", "y"}
    /\ pc = "idle"
    /\ op = "none"
    /\ ret = <<>>
    /\ calls = <<>>
    /\ events = <<>>
    /\ generic = FALSE

\* ------------------------------------------------------------------ clone
\* let mut uninit: MaybeUninit<Self> = MaybeUninit::uninit();
clone_uninit ==
    /\ pc = "idle"
    /\ clone_is_accel(bits)
    /\ pc' = "clone_uninit"
    /\ op' = "clone"
    /\ live' = live \cup {"uninit"}
    /\ mem' = Dead(mem, "uninit")
    /\ events' = <<"uninit">>
    /\ UNCHANGED <<pre, bits, ret, calls, generic>>

\* The arguments are evaluated (Self::ZERO is materialised for the statement)
\* and clone_impl is entered.
clone_call ==
    /\ pc = "clone_uninit"
    /\ pc' = "clone_call"
    /\ live' = live \cup {"zero"}
    /\ mem' = Store(mem, "zero", ZERO)
    /\ calls' = Append(calls, [fn |-> "clone_impl", ptrs |-> clone_args])
    /\ events' = Append(events, "call")
    /\ UNCHANGED <<pre, bits, op, ret, generic>>

\* clone_impl runs and returns.
clone_impl_return ==
    /\ pc = "clone_call"
    /\ pc' = "clone_ret"
    /\ LET c == calls[Len(calls)]
       IN mem' = clone_impl(mem, c.ptrs[1], c.ptrs[2], c.ptrs[3])
    /\ events' = Append(events, "return")
    /\ UNCHANGED <<pre, bits, live, op, ret, calls, generic>>

\* return unsafe { uninit.assume_init() }: the buffer is read as a value and
\* moved into the caller's slot; a limb never written reads as any value.
assume_init(at) ==
    /\ pc = at
    /\ pc' = "done"
    /\ \E v \in [1 .. LIMBS -> Limb] :
          /\ \A i \in 1 .. LIMBS :
                LimbsOf(mem, "uninit")[i] # Undef => v[i] = LimbsOf(mem, "uninit")[i]
          /\ mem' = Store(Dead(Dead(mem, "uninit"), "zero"), "r", v)
    /\ live' = (live \ {"uninit", "zero"}) \cup {"r"}
    /\ events' = Append(events, "assume_init")
    /\ UNCHANGED <<pre, bits, op, ret, calls, generic>>

\* Faulty variant: the buffer taken as initialized before clone_impl was called.
clone_assume_init_early == assume_init("clone_uninit")

\* assume_init on line 55, after the statement of the call.
clone_assume_init == assume_init("clone_ret")

\* Self { limbs: self.limbs }
clone_generic ==
    /\ pc = "idle"
    /\ ~clone_is_accel(bits)
    /\ pc' = "done"
    /\ op' = "clone"
    /\ mem' = Store(mem, "r", LimbsOf(mem, self))
    /\ live' = live \cup {"r"}
    /\ generic' = TRUE
    /\ UNCHANGED <<pre, bits, ret, calls, events>>

\* --------------------------------------------------------------------- eq
\* eq_impl(self.limbs.as_ptr(), other.limbs.as_ptr()) is entered.
eq_call ==
    /\ pc = "idle"
    /\ eq_is_accel(bits)
    /\ pc' = "eq_call"
    /\ op' = "eq"
    /\ calls' = Append(calls, [fn |-> "eq_impl", ptrs |-> eq_args])
    /\ UNCHANGED <<pre, bits, mem, live, ret, events, generic>>

\* eq_impl runs and its result is the result of eq.
eq_impl_return ==
    /\ pc = "eq_call"
    /\ pc' = "done"
    /\ LET c == calls[Len(calls)]
       IN ret' = <<eq_impl(mem, c.ptrs[1], c.ptrs[2])>>
    /\ UNCHANGED <<pre, bits, mem, live, op, calls, events, generic>>

\* self.limbs == other.limbs
eq_generic ==
    /\ pc = "idle"
    /\ ~eq_is_accel(bits)
    /\ pc' = "done"
    /\ op' = "eq"
    /\ ret' = <<LimbsOf(mem, self) = LimbsOf(mem, other)>>
    /\ generic' = TRUE
    /\ UNCHANGED <<pre, bits, mem, live, calls, events>>

\* -------------------------------------------------------------------- cmp
\* cmp_impl(self.limbs.as_ptr(), other.limbs.as_ptr()) is entered.
cmp_call ==
    /\ pc = "idle"
    /\ cmp_is_accel(bits)
    /\ pc' = "cmp_call"
    /\ op' = "cmp"
    /\ calls' = Append(calls, [fn |-> "cmp_impl", ptrs |-> cmp_args])
    /\ UNCHANGED <<pre, bits, mem, live, ret, events, generic>>

\* cmp_impl runs and its result is the result of cmp.
cmp_impl_return ==
    /\ pc = "cmp_call"
    /\ pc' = "done"
    /\ LET c == calls[Len(calls)]
       IN ret' = <<cmp_impl(mem, c.ptrs[1], c.ptrs[2])>>
    /\ UNCHANGED <<pre, bits, mem, live, op, calls, events, generic>>

\* The generic limb-wise comparison.
cmp_generic ==
    /\ pc = "idle"
    /\ ~cmp_is_accel(bits)
    /\ pc' = "done"
    /\ op' = "cmp"
    /\ ret' = <<GenericCmp(LimbsOf(mem, self), LimbsOf(mem, other))>>
    /\ generic' = TRUE
    /\ UNCHANGED <<pre, bits, mem, live, calls, events>>

\* ----------------------------------------------------------------- caller
\* The caller writes one limb of the copy clone returned.
MutateRet ==
    /\ pc = "done"
    /\ op = "clone"
    /\ "mutate" \notin Range(events)
    /\ \E i \in 1 .. LIMBS :
          mem' = [mem EXCEPT ![Base("r") + i - 1] = (mem[Base("r") + i - 1] + 1) % Radix]
    /\ events' = Append(events, "mutate")
    /\ UNCHANGED <<pre, bits, live, pc, op, ret, calls, generic>>

\* The call is over: its result is dropped and the next call may start.
Return ==
    /\ pc = "done"
    /\ pc' = "idle"
    /\ op' = "none"
    /\ mem' = Dead(mem, "r")
    /\ live' = live \ {"r"}
    /\ ret' = <<>>
    /\ calls' = <<>>
    /\ events' = <<>>
    /\ generic' = FALSE
    /\ UNCHANGED <<pre, bits>>

Next ==
    \/ clone_uninit
    \/ clone_call
    \/ clone_impl_return
    \/ clone_assume_init
    \/ clone_generic
    \/ eq_call
    \/ eq_impl_return
    \/ eq_generic
    \/ cmp_call
    \/ cmp_impl_return
    \/ cmp_generic
    \/ MutateRet
    \/ Return

Spec == Init /\ [][Next]_vars
\* ------------------------------------------------------------- properties
\* The foreign call in progress or last made by the current operation.
Call == calls[Len(calls)]
Mutated == "mutate" \in Range(events)
IsPrefix(s, t) == Len(s) <= Len(t) /\ \A i \in 1 .. Len(s) : s[i] = t[i]
\* The limb ranges [p, p + n) and [q, q + n) share a cell.
Overlap(p, q, n) == p < q + n /\ q < p + n
\* A live object whose limb array starts at address p.
PointsAtLive(p) == \E o \in live : Base(o) = p
Blank == [c \in Addr |-> Undef]
\* cmp_impl on the pair of values u, v.
CmpOf(u, v) == cmp_impl(Store(Store(Blank, "x", u), "y", v), Base("x"), Base("y"))

\* C1: clone and eq invoke a foreign routine iff BITS == 256: at 256 exactly
\* one foreign call (clone_impl resp. eq_impl) and no generic computation in
\* the call; at any other width no foreign call at all and the generic result
\* (limb array copy for clone, limb-wise array equality for eq).
C1_ForeignIffBits256 ==
    /\ calls # <<>> => bits = 256
    /\ Len(calls) <= 1
    /\ (pc = "done" /\ op \in {"clone", "eq"}) =>
          IF bits = 256
          THEN /\ Len(calls) = 1
               /\ calls[1].fn = (IF op = "clone" THEN "clone_impl" ELSE "eq_impl")
               /\ ~generic
          ELSE /\ calls = <<>>
               /\ generic
               /\ (op = "clone" /\ ~Mutated) => LimbsOf(mem, "r") = LimbsOf(mem, self)
               /\ op = "eq" => ret = <<LimbsOf(mem, self) = LimbsOf(mem, other)>>

C1_Witness ==
    /\ pc = "done" /\ op = "clone" /\ bits = 256
    /\ Len(calls) = 1 /\ calls[1].fn = "clone_impl" /\ ~generic

\* C2: for every 256-bit value v, clone(v) returns a value whose limbs equal
\* v's limbs one for one, in storage of its own: a later change of a limb of
\* the copy leaves v's limbs as they were.
C2_CloneEqualAndIndependent ==
    (bits = 256 /\ op = "clone" /\ pc = "done") =>
        /\ LimbsOf(mem, self) = pre.x
        /\ ~Mutated => LimbsOf(mem, "r") = pre.x
        /\ Mutated => LimbsOf(mem, "r") # pre.x
        /\ ~Overlap(Base("r"), Base(self), LIMBS)

C2_Witness ==
    /\ bits = 256 /\ op = "clone" /\ pc = "done" /\ Mutated
    /\ pre.x # ZERO
    /\ LimbsOf(mem, self) = pre.x

\* C3: for every pair of 256-bit values the accelerated eq, which returns the
\* result of eq_impl, is the limb-wise equality of the two limb arrays.
C3_EqAgreesWithLimbEquality ==
    (bits = 256 /\ op = "eq" /\ pc = "done") =>
        /\ calls[1].fn = "eq_impl"
        /\ ret[1] = (LimbsOf(mem, self) = LimbsOf(mem, other))

C3_Witness ==
    /\ bits = 256 /\ op = "eq" /\ pc = "done"
    /\ ret = <<FALSE>>
    /\ \A i \in 1 .. (LIMBS - 1) : pre.x[i] = pre.y[i]

C6_ZeroArgumentIsLiveZero ==
    pc \in {"clone_call", "clone_ret"} =>
        /\ Call.fn = "clone_impl"
        /\ Call.ptrs[3] = Base("zero")
        /\ PointsAtLive(Call.ptrs[3])
        /\ ReadN(mem, Call.ptrs[3], LIMBS) = ZERO

C6_Witness ==
    /\ pc = "clone_ret"
    /\ pre.x # ZERO
    /\ ReadN(mem, Call.ptrs[3], LIMBS) = ZERO

\* C7: the accelerated clone runs in the order buffer allocated uninitialized,
\* clone_impl called, clone_impl returned, buffer taken as initialized and
\* returned; the buffer is not read or returned before clone_impl returned,
\* and every address handed to a foreign routine is of live storage.
C7_CloneStepOrder ==
    /\ (op = "clone" /\ ~generic) =>
          IsPrefix(events, <<"uninit", "call", "return", "assume_init", "mutate">>)
    /\ (op = "clone" /\ ~generic /\ "r" \in live) => "return" \in Range(events)
    /\ pc = "clone_uninit" => \A c \in Cells("uninit") : mem[c] = Undef
    /\ pc \in {"clone_call", "eq_call"} =>
          \A i \in 1 .. Len(Call.ptrs) : PointsAtLive(Call.ptrs[i])

C7_Witness ==
    /\ pc = "done" /\ op = "clone"
    /\ events = <<"uninit", "call", "return", "assume_init">>

\* C8: in the clone_impl call the output address is storage that overlaps
\* neither input (the source's limbs, the zero value's limbs), for every
\* source value, the zero value included.
C8_OutputAliasesNoInput ==
    pc \in {"clone_call", "clone_ret"} =>
        /\ ~Overlap(Call.ptrs[1], Call.ptrs[2], NativeLimbs)
        /\ ~Overlap(Call.ptrs[1], Call.ptrs[3], NativeLimbs)

C8_Witness ==
    /\ pc = "clone_call"
    /\ pre.x = ZERO
    /\ Call.ptrs[1] # Call.ptrs[2]

\* C9: clone and eq write nothing but clone's own output: at every point of
\* every sequence of calls the operands and the zero value hold the limbs
\* they held before, nothing of a call is left once it is over, and the
\* result is determined by the limbs of the operands.
C9_FrameAndDeterminism ==
    /\ LimbsOf(mem, self) = pre.x
    /\ LimbsOf(mem, other) = pre.y
    /\ "zero" \in live => LimbsOf(mem, "zero") = ZERO
    /\ pc = "idle" =>
          /\ live = {"x", "y"}
          /\ calls = <<>> /\ ret = <<>> /\ events = <<>>
          /\ mem = Store(Store(Blank, "x", pre.x), "y", pre.y)
    /\ (pc = "done" /\ op = "eq") => ret = <<pre.x = pre.y>>
    /\ (pc = "done" /\ op = "clone" /\ ~Mutated) => LimbsOf(mem, "r") = pre.x

C9_Witness ==
    /\ pc = "done" /\ op = "eq" /\ bits # 256
    /\ ret = <<TRUE>>
    /\ pre.x # ZERO

\* C10: whenever clone or eq is inside a foreign call, every pointer it passed
\* addresses a limb array of exactly 4 64-bit limbs, the size the 256-bit
\* routines read and write.
C10_PointersAddressFourLimbs ==
    pc \in {"clone_call", "eq_call"} =>
        \A i \in 1 .. Len(Call.ptrs) :
            /\ PointsAtLive(Call.ptrs[i])
            /\ LIMBS * WordBits = NativeBits
            /\ LIMBS = 4

C10_Witness ==
    /\ pc = "eq_call"
    /\ Len(Call.ptrs) = 2
    /\ LIMBS = 4
====
